---- MODULE Spec2Model ----
(***************************************************************************)
(* Model of dallebot (src/dallebot/__main__.py): a Telegram bot that       *)
(* forwards prompts to OpenAI's image generation and limits each user to   *)
(* one request per min_requests_delay seconds and max_images_per_day per   *)
(* day, using a pandas DataFrame (df) that is rewritten to a CSV file on   *)
(* every accepted request.                                                 *)
(*                                                                         *)
(* Time is wall-clock time in whole seconds since 2022-01-01 00:00:00,     *)
(* the sentinel of line 135, which is a local midnight.  The dispatcher of *)
(* python-telegram-bot runs the handlers one update at a time (no handler  *)
(* is registered with run_async), so one action is one dispatched update:  *)
(* the handler, and error_handler when the handler raised.                 *)
(***************************************************************************)
EXTENDS Integers, Sequences, FiniteSets, TLC

VARIABLES
    now,    \* the wall clock
    df,     \* the module-global DataFrame: a sequence of rows, each with its index label
    csv,    \* the rows of logs/dalle_bot_logs.csv
    conv,   \* ConversationHandler's state of each (chat, user) conversation
    last,   \* what the last dispatched update did: outcome and the calls it made
    updates \* the updates received and not yet handled to the end, in order of arrival

vars == <<now, df, csv, conv, last, updates>>

----------------------------------------------------------------------------
(* Program constants *)

min_requests_delay == 60
max_images_per_day == 5
default_size == 256
\* (a - b).seconds is the seconds field of a timedelta normalised to
\* days, 0 <= seconds < 86400, microseconds.
SecondsPerDay == 86400
\* datetime.datetime.strptime("2022-01-01", "%Y-%m-%d"): the origin of the time axis
Sentinel == 0

\* Conversation states: range(2), and None for a conversation with no state yet
MESSAGE == 0
EMPTY_MESSAGE == 1
NONE == -1

----------------------------------------------------------------------------
(* Bounds and input sets *)

\* Requests are delivered while df holds fewer than MaxRows rows
MaxRows == 3
\* The instants at which the clock is read: these times of day (00:00:30,
\* 00:01:00, 00:01:59, 00:02:00) on two days after the sentinel's
Days == {1, 2}
Offsets == {30, 60, 119, 120}
Instants == {d * SecondsPerDay + o : d \in Days, o \in Offsets}

\* Telegram user ids
Users == {1, 2}
\* The conversations: user 1 in a private chat, user 2 in a group
Convs == {[chat |-> "private", user |-> 1], [chat |-> "supergroup", user |-> 2]}

\* A string is a sequence of characters
SP == " "
\* context.args of /generate: the words after the command
ArgsSet == {<< >>, << <<"a">> >>}
\* update.message.text of a plain text message
TextSet == {<<SP>>, <<SP, "a", SP>>}
\* context.args of the requests between restarts: user 1 sends the prompt a,
\* user 2 the prompt NA
RestartArgs(c) == IF c.user = 1 THEN << <<"a">> >> ELSE << <<"N", "A">> >>

\* What openai.Moderation.create and openai.Image.create answer or raise
ProviderErrors == {"InvalidRequestError", "RateLimitError", "APIError"}
ModResults == {"clean", "flagged"} \cup ProviderErrors
ImgResults == {"url"} \cup ProviderErrors
\* The environment of one dispatched update: the providers' answers, whether
\* to_csv succeeds, and which Telegram call of the update raises (0: none).
\* An answer that is never asked for is left at its default.
AllEnvSet ==
    {e \in [mod : ModResults, img : ImgResults, csvOk : BOOLEAN, tgFail : 0..4] :
        /\ e.mod # "clean" => e.img = "url"
        /\ ~e.csvOk => e.mod = "clean" /\ e.img = "url" /\ e.tgFail \in {0, 2}
        /\ e.tgFail = 1 => e.csvOk /\ e.mod = "clean" /\ e.img = "url"}
NoFault == [mod |-> "clean", img |-> "url", csvOk |-> TRUE, tgFail |-> 0]
\* The environments of a request of Spec: every answer of the providers and
\* of to_csv, and either no Telegram call raises or the first one of the
\* update does, whichever it is: send_chat_action of line 70, the answer of a
\* rejection (lines 140, 153, 162), or the message of error_handler after
\* the exception of line 150. Later Telegram calls raise in SpecTg.
EnvSet == {e \in AllEnvSet : e.tgFail \in {0, 1}}

----------------------------------------------------------------------------
(* Helpers: Python and pandas *)

Max(S) == CHOOSE x \in S : \A y \in S : y <= x
Min(S) == CHOOSE x \in S : \A y \in S : x <= y

\* hash(int) of CPython for |x| < 2^61 - 1: the integer itself, except hash(-1) = -2
hash(x) == IF x = -1 THEN -2 ELSE x

RECURSIVE lstrip(_)
lstrip(s) == IF s # << >> /\ Head(s) = SP THEN lstrip(Tail(s)) ELSE s
RECURSIVE rstrip(_)
rstrip(s) == IF s # << >> /\ s[Len(s)] = SP THEN rstrip(SubSeq(s, 1, Len(s) - 1)) ELSE s
\* A trimming that leaves the text as it is
strip_nothing(s) == s

\* str.strip()
strip(s) == rstrip(lstrip(s))

RECURSIVE join(_)
\* " ".join(words)
join(words) ==
    IF words = << >> THEN << >>
    ELSE IF Len(words) = 1 THEN words[1]
    ELSE words[1] \o <<SP>> \o join(Tail(words))

\* "group" in update.message.chat.type
is_group_chat(chatType) == chatType \in {"group", "supergroup"}

\* df[df.hashed_user == hashed_user]
UserRows(d, h) == SelectSeq(d, LAMBDA r : r.hashed_user = h)

\* The first timestamp of the user instead of the last one
max_datetime_for_user_first(d, h) ==
    LET rows == UserRows(d, h)
    IN  IF rows = << >> THEN Sentinel
        ELSE Min({rows[i].timestamp : i \in DOMAIN rows})

\* max(df[df.hashed_user == hashed_user]["timestamp"], default=sentinel)
max_datetime_for_user(d, h) ==
    LET rows == UserRows(d, h)
    IN  IF rows = << >> THEN Sentinel
        ELSE Max({rows[i].timestamp : i \in DOMAIN rows})

\* The seconds since the sentinel's midnight, whatever the user's rows
seconds_diff_since_sentinel(d, h, t) == (t - Sentinel) % SecondsPerDay

\* (datetime_now - max_datetime_for_user).seconds
seconds_diff(d, h, t) == (t - max_datetime_for_user(d, h)) % SecondsPerDay

\* datetime.datetime.combine(datetime.date.today(), datetime.datetime.min.time())
today(t) == t - (t % SecondsPerDay)

\* The index labels of a frame, in row order
Labels(s) == [i \in DOMAIN s |-> s[i].idx]

RECURSIVE get_indexer_for(_, _)
\* Index.get_indexer_for(target) of the row index of d: for each target label in
\* turn, the positions of all the rows of d that carry it
get_indexer_for(d, target) ==
    IF target = << >> THEN << >>
    ELSE SelectSeq([i \in 1..Len(d) |-> i], LAMBDA p : d[p].idx = Head(target))
             \o get_indexer_for(d, Tail(target))

\* What line 150 raises when the reindexed key selects a position past the frame
IndexError == -1

\* df[df.hashed_user == hashed_user][df.timestamp >= today].shape[0]: the set of
\* the values the installed pandas can give.
\* The key df.timestamp >= today is a Boolean Series over the rows of the whole
\* df, applied to the frame of the user's rows.  When the two row indexes are
\* equal the key is used as it is.  Otherwise pandas reindexes the key to the
\* frame's labels ("Boolean Series key will be reindexed to match DataFrame
\* index"): each label of the frame gets the key's value at every row of df
\* with that label.  Rows loaded from the file are labelled 0, 1, 2, ..., and
\* every row appended by line 83 is labelled 0, so the reindexed key can be
\* longer than the frame.  pandas then takes the frame's rows at the positions
\* where the reindexed key is true and raises IndexError for a position past
\* the frame (pandas 1.3 to 1.5); pandas 2 first returns the whole frame when
\* the reindexed key is true everywhere.
number_of_requests_per_day(d, h, t) ==
    LET frame == UserRows(d, h)
        ix == get_indexer_for(d, Labels(frame))
        key == [j \in 1..Len(ix) |-> d[ix[j]].timestamp >= today(t)]
        nonzero == {j \in 1..Len(ix) : key[j]}
        taken == IF \E j \in nonzero : j > Len(frame) THEN IndexError
                 ELSE Cardinality(nonzero)
    IN  IF Labels(frame) = Labels(d)
        THEN {Cardinality({i \in 1..Len(d) : d[i].timestamp >= today(t)})}
        ELSE {taken, IF \A j \in 1..Len(ix) : key[j] THEN Len(frame) ELSE taken}

\* pd.DataFrame([[is_group, datetime_now, prompt, size, hashed_user]], columns=df_columns)
NewRow(is_group, t, prompt, size, h) ==
    [idx |-> 0, group |-> is_group, timestamp |-> t, prompt |-> prompt,
     size |-> size, hashed_user |-> h]

\* The missing value of pandas, which is no string
NaN == <<"NaN">>
\* The strings that read_csv takes for a missing value (keep_default_na), of
\* those that can be written with the characters of the prompts (space, a, N,
\* A): "", "NA" and "NaN"
na_values == {<< >>, <<"N", "A">>, <<"N", "a", "N">>}

\* df.to_csv(csv_file_name, header=True, index=False): every row, without its
\* label; a missing value is written as the empty string (na_rep)
to_csv(d) ==
    [i \in 1..Len(d) |->
        [group |-> d[i].group, timestamp |-> d[i].timestamp,
         prompt |-> IF d[i].prompt = NaN THEN << >> ELSE d[i].prompt,
         size |-> d[i].size, hashed_user |-> d[i].hashed_user]]

\* pd.read_csv(csv_file_name) and astype: the rows of the file, labelled 0, 1,
\* 2, ...; a field that is one of na_values is read as a missing value
read_csv(file) ==
    [i \in 1..Len(file) |->
        [idx |-> i - 1, group |-> file[i].group, timestamp |-> file[i].timestamp,
         prompt |-> IF file[i].prompt \in na_values THEN NaN ELSE file[i].prompt,
         size |-> file[i].size, hashed_user |-> file[i].hashed_user]]

----------------------------------------------------------------------------
(* The calls of one dispatched update *)

\* context.bot.* calls
BotOps == {"send_chat_action", "send_too_soon", "send_quota", "send_ask_prompt",
           "send_greeting", "send_photo_user", "send_photo_dev",
           "send_policy_user", "send_policy_dev", "send_error_user",
           "send_error_dev", "send_diagnostic_dev"}

NoCalls == [calls |-> << >>, raised |-> FALSE]

\* The results with which a call raises
Raises == {"raised"} \cup ProviderErrors

\* A call, the text and the user tag it is given, and its result; nothing is
\* called after a call that raised
Call(acc, op, res, text, user) ==
    IF acc.raised THEN acc
    ELSE [calls |-> Append(acc.calls,
                           [op |-> op, res |-> res, text |-> text, user |-> user]),
          raised |-> res \in Raises]

NumBotCalls(calls) == Cardinality({i \in DOMAIN calls : calls[i].op \in BotOps})

\* A Telegram call: the env.tgFail-th one of the update raises
Bot(acc, op, text, env) ==
    Call(acc, op, IF NumBotCalls(acc.calls) + 1 = env.tgFail THEN "raised" ELSE "ok",
         text, 0)

----------------------------------------------------------------------------
(* The handlers.  Each yields the new df and file, the conversation state it *)
(* returns, its decision and outcome, and the calls it made; raised says     *)
(* that an exception left the handler.                                       *)

Result(d, file, ret, decision, outcome, retry, acc) ==
    [df |-> d, csv |-> file, ret |-> ret, decision |-> decision,
     outcome |-> IF acc.raised THEN "Fatal" ELSE outcome,
     retry |-> retry, calls |-> acc.calls, raised |-> acc.raised]

\* An except clause that names InvalidRequestError only
Caught_invalid_only == {"InvalidRequestError"}

\* The except clause of line 105 catches these
Caught == {"InvalidRequestError", "RateLimitError"}

\* Lines 74-81
is_group_text(is_group) == IF is_group THEN "group: " ELSE "single user: "

\* A body for lines 91-104 that asks for the image whatever moderation says
try_block_ungated(acc, is_group, prompt, h, env) ==
    LET a1 == Call(acc, "Moderation.create", env.mod, prompt, 0)
        a2 == Call(a1, "Image.create", env.img, prompt, h)
        a3 == Bot(a2, "send_photo_user", prompt, env)
    IN  Bot(a3, "send_photo_dev", <<is_group_text(is_group)>> \o prompt, env)

\* A body for lines 91-104 that sends nothing to the developer chat
try_block_no_copy(acc, is_group, prompt, h, env) ==
    LET a1 == Call(acc, "Moderation.create", env.mod, prompt, 0)
    IN  IF env.mod # "flagged"
        THEN LET a2 == Call(a1, "Image.create", env.img, prompt, h)
             IN  Bot(a2, "send_photo_user", prompt, env)
        ELSE Bot(a1, "send_policy_user", << >>, env)

\* Lines 91-104, the body of the try statement of generate
try_block(acc, is_group, prompt, h, env) ==
    LET a1 == Call(acc, "Moderation.create", env.mod, prompt, 0)
    IN  IF env.mod # "flagged"
        THEN LET a2 == Call(a1, "Image.create", env.img, prompt, h)
                 a3 == Bot(a2, "send_photo_user", prompt, env)
             IN  Bot(a3, "send_photo_dev", <<is_group_text(is_group)>> \o prompt, env)
        ELSE LET a2 == Bot(a1, "send_policy_user", << >>, env)
             IN  Bot(a2, "send_policy_dev", prompt, env)

\* Line 83: df = pd.concat([df, pd.DataFrame([...], columns=df_columns)])
concat(d, row) == d \o <<row>>

\* generate(update, context, prompt, chat_id, datetime_now, hashed_user)
generate(d, file, c, prompt, t, h, env) ==
    LET a1 == Bot(NoCalls, "send_chat_action", << >>, env)
        is_group == is_group_chat(c.chat)
        \* lines 83-84: the row joins df, then the whole df is written
        a2 == Call(a1, "concat", "ok", prompt, h)
        d1 == IF a1.raised THEN d
              ELSE concat(d, NewRow(is_group, t, prompt, default_size, h))
        a3 == Call(a2, "to_csv", IF env.csvOk THEN "ok" ELSE "raised", << >>, 0)
        file1 == IF a3.raised THEN file ELSE to_csv(d1)
        a5 == try_block(a3, is_group, prompt, h, env)
        failed == a5.calls[Len(a5.calls)]
        caught == /\ a3.raised = FALSE
                  /\ a5.raised
                  /\ failed.op \in {"Moderation.create", "Image.create"}
                  /\ failed.res \in Caught
        \* lines 105-107: str(e) to the user, the prompt and str(e) to the developer
        a6 == IF caught
              THEN Bot(Bot([a5 EXCEPT !.raised = FALSE],
                           "send_error_user", <<failed.res>>, env),
                       "send_error_dev", prompt \o <<"\n", failed.res>>, env)
              ELSE a5
        outcome == IF caught THEN "ProviderError"
                   ELSE IF env.mod = "flagged" THEN "Blocked" ELSE "Delivered"
    IN  Result(d1, file1, MESSAGE, "Admitted", outcome, 0, a6)

\* An admission that records the request before it checks the interval
check_recording_rejections(d, file, c, prompt, t, n, env) ==
    LET hashed_user == hash(c.user)
        diff == seconds_diff(d, hashed_user, t)
    IN  IF diff < min_requests_delay
        THEN LET d1 == concat(d, NewRow(is_group_chat(c.chat), t, prompt,
                                         default_size, hashed_user))
             IN  Result(d1, to_csv(d1), EMPTY_MESSAGE, "TooSoon", "TooSoon",
                        min_requests_delay - diff,
                        Bot(NoCalls, "send_too_soon", << >>, env))
        ELSE IF n = IndexError
        THEN Result(d, file, NONE, "IndexError", "Fatal", 0,
                    Call(NoCalls, "count_today", "raised", << >>, 0))
        ELSE IF n > max_images_per_day
        THEN Result(d, file, EMPTY_MESSAGE, "QuotaExceeded", "QuotaExceeded", 0,
                    Bot(NoCalls, "send_quota", << >>, env))
        ELSE IF Len(prompt) = 0
        THEN Result(d, file, EMPTY_MESSAGE, "PromptRequired", "PromptRequired", 0,
                    Bot(NoCalls, "send_ask_prompt", << >>, env))
        ELSE generate(d, file, c, prompt, t, hashed_user, env)

\* check_if_prompt_empty_and_message_not_too_early(update, context, prompt)
\* n is what line 150 gives: one of number_of_requests_per_day(d, hashed_user, t)
check_if_prompt_empty_and_message_not_too_early(d, file, c, prompt, t, n, env) ==
    LET hashed_user == hash(c.user)
        diff == seconds_diff(d, hashed_user, t)
    IN  IF diff < min_requests_delay
        THEN Result(d, file, EMPTY_MESSAGE, "TooSoon", "TooSoon",
                    min_requests_delay - diff,
                    Bot(NoCalls, "send_too_soon", << >>, env))
        ELSE IF n = IndexError
        THEN Result(d, file, NONE, "IndexError", "Fatal", 0,
                    Call(NoCalls, "count_today", "raised", << >>, 0))
        ELSE IF n > max_images_per_day
        THEN Result(d, file, EMPTY_MESSAGE, "QuotaExceeded", "QuotaExceeded", 0,
                    Bot(NoCalls, "send_quota", << >>, env))
        ELSE IF Len(prompt) = 0
        THEN Result(d, file, EMPTY_MESSAGE, "PromptRequired", "PromptRequired", 0,
                    Bot(NoCalls, "send_ask_prompt", << >>, env))
        ELSE generate(d, file, c, prompt, t, hashed_user, env)

\* generate_from_command(update, context)
generate_from_command(d, file, c, args, t, n, env) ==
    check_if_prompt_empty_and_message_not_too_early(
        d, file, c, strip(join(args)), t, n, env)

\* generate_from_message(update, context)
generate_from_message(d, file, c, text, t, n, env) ==
    check_if_prompt_empty_and_message_not_too_early(
        d, file, c, strip(text), t, n, env)

\* start(update, context)
start(d, file, env) ==
    Result(d, file, MESSAGE, "Greeting", "Greeting", 0,
           Bot(NoCalls, "send_greeting", << >>, env))

\* cancel(update, context)
cancel(d, file) ==
    Result(d, file, MESSAGE, "Cancel", "Cancel", 0, NoCalls)

\* An error handler that only logs
error_handler_silent(calls, env) == calls

\* error_handler(update, context): one message to developer_chat_id.  The
\* dispatcher calls it when a handler raised; an exception it raises itself is
\* logged by the dispatcher.
error_handler(calls, env) ==
    Bot([calls |-> calls, raised |-> FALSE], "send_diagnostic_dev", << >>, env).calls

\* Dispatcher.process_update: the handler, error_handler when it raised, and
\* ConversationHandler's update of the conversation state, which a handler
\* that raised leaves as it was
Dispatched(update, c, text, r, env) ==
    [update |-> update, conv |-> c, text |-> text,
     decision |-> r.decision, outcome |-> r.outcome, retry |-> r.retry,
     calls |-> IF r.raised THEN error_handler(r.calls, env) ELSE r.calls]

NewState(c, r) == IF r.raised THEN conv[c] ELSE r.ret

----------------------------------------------------------------------------
(* The state machine *)

NoConv == [chat |-> "", user |-> 0]

\* The dispatcher between two updates
Idle == [update |-> "none", conv |-> NoConv, text |-> << >>,
         decision |-> "", outcome |-> "", retry |-> 0, calls |-> << >>]

\* Lines 31-38 with no file yet, and a ConversationHandler with no conversation
Init ==
    /\ now = Min(Instants)
    /\ df = << >>
    /\ csv = << >>
    /\ conv = [c \in Convs |-> NONE]
    /\ last = Idle
    /\ updates = << >>

\* The clock moves on to the next of the instants I at which it is read
Tick(I) ==
    /\ last = Idle
    /\ \E t \in I : t > now
    /\ now' = Min({t \in I : t > now})
    /\ UNCHANGED <<df, csv, conv, last, updates>>

\* What a handler that ran with result r leaves behind
Effects(update, c, text, r, env) ==
    /\ last = Idle
    /\ df' = r.df
    /\ csv' = r.csv
    /\ conv' = [conv EXCEPT ![c] = NewState(c, r)]
    /\ last' = Dispatched(update, c, text, r, env)
    /\ UNCHANGED now

\* Dispatcher.process_update for one update of conversation c, the handler
\* running from its first line to its return
Apply(update, c, text, r, env) ==
    /\ Effects(update, c, text, r, env)
    /\ UNCHANGED updates

\* /generate <args>: an entry point, and handled in both states (lines 196-208)
GenerateCommand(c, args, env) ==
    \E n \in number_of_requests_per_day(df, hash(c.user), now) :
        Apply("generate", c, join(args),
              generate_from_command(df, csv, c, args, now, n, env), env)

\* A plain text message: handled in state EMPTY_MESSAGE only (line 206)
TextMessage(c, text, env) ==
    /\ conv[c] = EMPTY_MESSAGE
    /\ \E n \in number_of_requests_per_day(df, hash(c.user), now) :
          Apply("text", c, text,
                generate_from_message(df, csv, c, text, now, n, env), env)

\* /start: an entry point, and handled in both states
StartCommand(c, env) ==
    Apply("start", c, << >>, start(df, csv, env), env)

\* /cancel: a fallback, tried for a conversation that has a state
CancelCommand(c, env) ==
    /\ conv[c] # NONE
    /\ Apply("cancel", c, << >>, cancel(df, csv), env)

\* The dispatcher goes back to polling for the next update
Poll ==
    /\ last # Idle
    /\ last' = Idle
    /\ UNCHANGED <<now, df, csv, conv, updates>>

\* The process is started again, in whatever state it is between two updates:
\* lines 31-38 load the file, or start with an empty df when reading it
\* raises; the conversations are not persisted
Restart(loadOk) ==
    /\ last = Idle
    /\ df' = IF loadOk THEN read_csv(csv) ELSE << >>
    /\ conv' = [c \in Convs |-> NONE]
    /\ UNCHANGED <<now, csv, last, updates>>

Next ==
    \/ Tick(Instants)
    \/ \E c \in Convs, args \in ArgsSet, env \in EnvSet :
          /\ Len(df) < MaxRows
          /\ GenerateCommand(c, args, env)
    \/ \E c \in Convs, text \in TextSet, env \in EnvSet :
          /\ Len(df) < MaxRows
          /\ TextMessage(c, text, env)
    \/ \E c \in Convs : StartCommand(c, NoFault)
    \/ \E c \in Convs : CancelCommand(c, NoFault)
    \/ Poll

\* One run of the process, from its first start
Spec == Init /\ [][Next]_vars

\* The environments in which the providers answer, and to_csv or the first
\* Telegram call of the update can fail
CsvEnvSet == {e \in EnvSet : e.mod = "clean" /\ e.img = "url"}

NextRestart ==
    \/ Tick(Instants)
    \/ \E c \in Convs, env \in CsvEnvSet :
          /\ Len(df) < MaxRows
          /\ GenerateCommand(c, RestartArgs(c), env)
    \/ \E loadOk \in BOOLEAN : Restart(loadOk)
    \/ Poll

\* Runs of the process with restarts between them: the file is what lasts
SpecRestart == Init /\ [][NextRestart]_vars

\* A day on which user 1 sends a request every minute from 00:01:00 to 00:07:00
\* and at 23:59:59, and the morning after
QuotaInstants ==
    {SecondsPerDay + o : o \in {60, 120, 180, 240, 300, 360, 420, 86399}}
        \cup {2 * SecondsPerDay + 60}
\* Requests of user 1 are delivered while it has fewer than MaxBusyRows rows,
\* those of user 2 while it has fewer than MaxOtherRows
MaxBusyRows == 7
MaxOtherRows == 1
RowCap(c) == IF c.user = 1 THEN MaxBusyRows ELSE MaxOtherRows

InitQuota ==
    /\ now = Min(QuotaInstants)
    /\ df = << >>
    /\ csv = << >>
    /\ conv = [c \in Convs |-> NONE]
    /\ last = Idle
    /\ updates = << >>

NextQuota ==
    \/ Tick(QuotaInstants)
    \/ \E c \in Convs, args \in ArgsSet :
          /\ Len(UserRows(df, hash(c.user))) < RowCap(c)
          /\ GenerateCommand(c, args, NoFault)
    \/ Poll

\* One run of the process through a busy day
SpecQuota == InitQuota /\ [][NextQuota]_vars

\* The environments in which a Telegram call of a handler may raise: the
\* typing action or the rejection (the first call of the update), the photo,
\* the policy message or the error text to the requester (the second), or
\* their copy to the developer chat (the third); the message of error_handler
\* is delivered
TgEnvSet ==
    {e \in AllEnvSet :
        /\ e.tgFail \in {0, 1, 2, 3}
        /\ e.tgFail >= 2 => /\ e.csvOk
                            /\ e.mod # "APIError"
                            /\ e.img # "APIError"}

NextTg ==
    \/ Tick(Instants)
    \/ \E c \in Convs, args \in ArgsSet, env \in TgEnvSet :
          Len(df) < MaxRows /\ GenerateCommand(c, args, env)
    \/ \E c \in Convs, env \in TgEnvSet : env.tgFail < 2 /\ StartCommand(c, env)
    \/ Poll

\* One run of the process in which sending to a requester can fail
SpecTg == Init /\ [][NextTg]_vars

\* The handlers line by line.  An update waits in the update queue of the
\* Updater ("queued") until the dispatcher takes it; a request that passed the
\* checks of lines 131-163 is then about to send the typing action of line 70
\* ("typing"), and after that about to append its row ("record").
MaxUpdates == 2

\* An update has the dispatcher's thread
Handling(u) == u.pos # "queued"

\* A dispatcher whose handlers run in threads of their own (run_async)
DispatcherFree_run_async(us) == TRUE

\* No handler is registered with run_async (lines 195-212): the dispatcher
\* takes the next update of the queue when the handler of the one before has
\* returned
DispatcherFree(us) == \A i \in DOMAIN us : ~Handling(us[i])

Remove(us, i) == SubSeq(us, 1, i - 1) \o SubSeq(us, i + 1, Len(us))

\* Telegram delivers /generate <args> of conversation c: Updater.start_polling
\* puts it in the update queue
Arrive(c, args) ==
    /\ Len(updates) < MaxUpdates
    /\ updates' = Append(updates, [conv |-> c, args |-> args, t |-> 0, pos |-> "queued"])
    /\ UNCHANGED <<now, df, csv, conv, last>>

\* The dispatcher takes the first queued update and runs lines 114-163 for it:
\* a request that is rejected is answered and its handler returns; one that
\* passes goes on to generate with the datetime_now of line 133
Admit(i) ==
    /\ DispatcherFree(updates)
    /\ updates[i].pos = "queued"
    /\ \A j \in 1..(i - 1) : updates[j].pos # "queued"
    /\ last = Idle
    /\ LET u == updates[i]
       IN  \E n \in number_of_requests_per_day(df, hash(u.conv.user), now) :
             LET r == generate_from_command(df, csv, u.conv, u.args, now, n, NoFault)
             IN  IF r.decision = "Admitted"
                 THEN /\ updates' = [updates EXCEPT ![i].pos = "typing", ![i].t = now]
                      /\ UNCHANGED <<now, df, csv, conv, last>>
                 ELSE /\ Effects("generate", u.conv, join(u.args), r, NoFault)
                      /\ updates' = Remove(updates, i)

\* Line 70: context.bot.send_chat_action
Typing(i) ==
    /\ updates[i].pos = "typing"
    /\ updates' = [updates EXCEPT ![i].pos = "record"]
    /\ UNCHANGED <<now, df, csv, conv, last>>

\* Lines 74-111: the row is appended and written, the providers are called,
\* and the handler returns
Record(i) ==
    /\ updates[i].pos = "record"
    /\ LET u == updates[i]
           r == generate(df, csv, u.conv, strip(join(u.args)), u.t,
                         hash(u.conv.user), NoFault)
       IN  Effects("generate", u.conv, join(u.args), r, NoFault)
    /\ updates' = Remove(updates, i)

NextSteps ==
    \/ Tick(Instants)
    \/ \E c \in Convs, args \in ArgsSet : Len(df) < MaxRows /\ Arrive(c, args)
    \/ \E i \in DOMAIN updates : Admit(i)
    \/ \E i \in DOMAIN updates : Typing(i)
    \/ \E i \in DOMAIN updates : Record(i)
    \/ Poll

\* One run of the process, with the updates that wait while one is handled
SpecSteps == Init /\ [][NextSteps]_vars

----------------------------------------------------------------------------
(* The claims.  They speak of the ledger and of what the last update did,  *)
(* in terms of their own: the identity's records, and the time elapsed     *)
(* since the latest of them.                                               *)

\* The update just dispatched was run through admission
IsRequest(l) == l.update \in {"generate", "text"}
Identity(l) == hash(l.conv.user)
\* The identity's records in a ledger
Records(d, h) == {i \in DOMAIN d : d[i].hashed_user = h}
HasRecord(d, h) == Records(d, h) # {}
\* The time of the identity's last accepted request
LastAccepted(d, h) ==
    CHOOSE t \in {d[i].timestamp : i \in Records(d, h)} :
        \A i \in Records(d, h) : d[i].timestamp <= t
\* The update called the moderation or the generation endpoint
Called(l, op) == \E i \in DOMAIN l.calls : l.calls[i].op = op
ProviderCalled(l) == Called(l, "Moderation.create") \/ Called(l, "Image.create")
\* A step that dispatches a request
RequestStep == last = Idle /\ IsRequest(last')

\* C1: a request that arrives less than min_requests_delay seconds (d) after
\* the identity's last accepted request is rejected as TooSoon with
\* retry_after = min_requests_delay - d, which is in 1..60; the rejection
\* leaves df and the file as they are and calls neither provider endpoint.
C1_TooSoonWithinInterval ==
    [][(/\ RequestStep
        /\ HasRecord(df, Identity(last'))
        /\ now - LastAccepted(df, Identity(last')) < 60)
       => (/\ last'.decision = "TooSoon"
           /\ last'.retry = 60 - (now - LastAccepted(df, Identity(last')))
           /\ last'.retry \in 1..60
           /\ df' = df /\ csv' = csv
           /\ ~ProviderCalled(last'))]_vars

\* C1, witness: a request 59 s after the identity's last accepted one was told
\* to retry in 1 s
C1_Witness ==
    /\ IsRequest(last)
    /\ last.decision = "TooSoon"
    /\ last.retry = 1
    /\ HasRecord(df, Identity(last))
    /\ now - LastAccepted(df, Identity(last)) = 59

\* C2: a request that arrives min_requests_delay seconds or more after the
\* identity's last accepted request, however long after, is never answered
\* TooSoon.
C2_NeverTooSoonAfterInterval ==
    [][(/\ RequestStep
        /\ HasRecord(df, Identity(last'))
        /\ now - LastAccepted(df, Identity(last')) >= 60)
       => last'.decision # "TooSoon"]_vars

\* C3: the first request of an identity with no record in the ledger is never
\* answered TooSoon, at whatever time of day it arrives.
C3_FirstRequestNeverTooSoon ==
    [][(RequestStep /\ ~HasRecord(df, Identity(last')))
       => last'.decision # "TooSoon"]_vars

\* The calendar day of an instant, and the identity's records of one day
DayOf(t) == t \div SecondsPerDay
RecordsOn(d, h, day) == {i \in Records(d, h) : DayOf(d[i].timestamp) = day}
AllDays == {DayOf(t) : t \in Instants \cup QuotaInstants}
Identities == {hash(u) : u \in Users}
\* A text that is empty or of white space only
Blank(text) == \A i \in DOMAIN text : text[i] = SP
\* Every call of op in the update comes after a call of op0
Precedes(l, op0, op) ==
    \A j \in DOMAIN l.calls :
        l.calls[j].op = op => \E i \in 1..(j - 1) : l.calls[i].op = op0

\* The update wrote the file
Written(l) == \E i \in DOMAIN l.calls : l.calls[i].op = "to_csv" /\ l.calls[i].res = "ok"

\* C4: after any sequence of requests, the records of one identity within one
\* calendar day number at most max_images_per_day (5), the limit that the
\* greeting and the quota message announce.
C4_AtMostFivePerDay ==
    \A h \in Identities, day \in AllDays :
        Cardinality(RecordsOn(df, h, day)) <= 5

\* C5: a request that passes the interval rule is rejected as QuotaExceeded
\* exactly when the identity has more than 5 records of the current day; with
\* 5 or fewer it goes on to the prompt check and is admitted; the rejection
\* leaves df and the file as they are and calls neither provider endpoint, and
\* no identity ever has more than 6 records of one day.
C5_QuotaRejectsExactlyAboveFive ==
    [][/\ \A h \in Identities, day \in AllDays :
              Cardinality(RecordsOn(df', h, day)) <= 6
       /\ (RequestStep /\ last'.decision # "TooSoon")
          => LET n == Cardinality(RecordsOn(df, Identity(last'), DayOf(now)))
             IN  /\ n > 5 => /\ last'.decision = "QuotaExceeded"
                             /\ df' = df /\ csv' = csv
                             /\ ~ProviderCalled(last')
                 /\ n <= 5 => last'.decision \in {"PromptRequired", "Admitted"}]_vars

\* C6, as stated: a request whose prompt is empty or of white space only
\* always yields PromptRequired and appends no record.
C6_BlankAlwaysPromptRequired ==
    [][(RequestStep /\ Blank(last'.text))
       => (last'.decision = "PromptRequired" /\ df' = df /\ csv' = csv)]_vars

\* C6, amended: a request whose prompt is empty or of white space only never
\* appends a record and never calls a provider endpoint; the interval check
\* and the daily count come first, so it is answered TooSoon or QuotaExceeded,
\* or ends in the exception of the daily count, and else yields PromptRequired:
\* the request for a prompt is sent (line 162), and the conversation is left
\* waiting for the prompt when that message is delivered, and in the state it
\* had when the send raises (line 163 is not reached).
C6_BlankNeverAdmitted ==
    [][(RequestStep /\ Blank(last'.text))
       => (/\ df' = df /\ csv' = csv
           /\ ~ProviderCalled(last')
           /\ last'.decision \in {"TooSoon", "QuotaExceeded", "IndexError",
                                  "PromptRequired"}
           /\ last'.decision = "PromptRequired"
              => /\ Called(last', "send_ask_prompt")
                 /\ conv'[last'.conv] = IF last'.outcome = "PromptRequired"
                                        THEN EMPTY_MESSAGE
                                        ELSE conv[last'.conv])]_vars

\* C6, witness: an identity with a record sent a text of one space while asked
\* for a prompt, and was asked again
C6_Witness ==
    /\ last.update = "text"
    /\ last.text = <<SP>>
    /\ last.decision = "PromptRequired"
    /\ HasRecord(df, Identity(last))

C8_AwaitingPromptOnlyOnPromptRequired ==
    [][RequestStep
       => /\ (conv[last'.conv] # EMPTY_MESSAGE /\ conv'[last'.conv] = EMPTY_MESSAGE)
             => last'.outcome = "PromptRequired"
          /\ last'.outcome \in {"TooSoon", "QuotaExceeded", "Blocked",
                                "ProviderError", "Delivered"}
             => conv'[last'.conv] = MESSAGE]_vars

\* C9: a request that passes the interval check, the daily count and the
\* prompt check appends exactly one record, of this identity and instant,
\* to df and, when the write succeeds, to the file, before Moderation.create
\* is called; no other request appends; and no record of df is removed or
\* changed, whatever the outcome. A request that passed the three checks and
\* whose send_chat_action (line 70) raised has appended nothing: line 83 is
\* not reached.
C9_AdmittedAppendsOneRecordFirst ==
    [][/\ \A i \in DOMAIN df : i \in DOMAIN df' /\ df'[i] = df[i]
       /\ (RequestStep /\ ~Blank(last'.text)
           /\ last'.decision \notin {"TooSoon", "QuotaExceeded", "IndexError"})
          => last'.decision = "Admitted"
       /\ (RequestStep /\ last'.decision = "Admitted")
          => /\ Len(df') = Len(df) + 1
             /\ df'[Len(df')].hashed_user = Identity(last')
             /\ df'[Len(df')].timestamp = now
             /\ ~Blank(df'[Len(df')].prompt)
             /\ Precedes(last', "concat", "to_csv")
             /\ Precedes(last', "to_csv", "Moderation.create")
             /\ Written(last') => /\ Called(last', "Moderation.create")
                                  /\ Len(csv') = Len(df')
                                  /\ csv'[Len(csv')].hashed_user = Identity(last')
                                  /\ csv'[Len(csv')].timestamp = now
             /\ Precedes(last', "Moderation.create", "Image.create")
       /\ (RequestStep /\ last'.decision # "Admitted") => df' = df]_vars

\* C10: over accepted requests, restarts and loads, also a load that fails,
\* no record once written to the file is removed or changed.
C10_FileOnlyGrows ==
    [][\A i \in DOMAIN csv : \E j \in DOMAIN csv' : csv'[j] = csv[i]]_vars

\* The records of a frame or of a file: the five columns of each row, in order
Fields(d) ==
    [i \in 1..Len(d) |->
        <<d[i].hashed_user, d[i].timestamp, d[i].prompt, d[i].size, d[i].group>>]
\* The answers that admission can give to /generate <args> of conversation c
\* at instant t when the ledger in memory is d
Decisions(d, c, args, t) ==
    {LET r == generate_from_command(d, << >>, c, args, t, n, NoFault)
     IN  <<r.decision, r.retry>> : n \in number_of_requests_per_day(d, hash(c.user), t)}

\* C11: after every successful write the file holds exactly the records of
\* df; a restart whose load succeeds, made when the file holds the records of
\* df, gives a df with the same records (identity, timestamp, prompt, size,
\* group flag), and every request is then decided as it would have been
\* without the restart.
C11_RestartRoundTrip ==
    [][/\ (RequestStep /\ Written(last')) => Fields(csv') = Fields(df')
       /\ (Restart(TRUE) /\ Fields(csv) = Fields(df))
          => /\ Fields(df') = Fields(df)
             /\ \A c \in Convs :
                   Decisions(df', c, RestartArgs(c), now)
                       = Decisions(df, c, RestartArgs(c), now)]_vars

\* The records of each identity come in the order of their timestamps, any
\* two of them at least min_requests_delay seconds apart
Spaced(d) ==
    \A h \in Identities : \A i, j \in Records(d, h) :
        i < j => d[j].timestamp - d[i].timestamp >= 60

\* C12: in every reachable state of df and of the file, the records of one
\* identity are in timestamp order in the order of insertion, and any two
\* consecutive ones are at least min_requests_delay (60) seconds apart.
C12_RecordsOrderedAndSpaced == Spaced(df) /\ Spaced(csv)

\* C12, witness: after a reload, df holds two records of one identity that
\* are exactly 60 s apart
C12_Witness ==
    \E h \in Identities : \E i, j \in Records(df, h) :
        /\ i < j
        /\ df[j].timestamp - df[i].timestamp = 60
        /\ df[j].idx > 0

\* The updates that are between their ledger query and their append
InSection(us) == {i \in DOMAIN us : us[i].pos \in {"typing", "record"}}

\* C13: the ledger query, the decision and the append of a request are one
\* critical section per identity: no two requests of one identity are between
\* their query and their append at once, also while the typing action is
\* sent; no request of an identity is queried and rejected while another of
\* that identity is in its section; so every two records of one identity are
\* at least 60 s apart.
C13_CriticalSectionPerIdentity ==
    [][/\ \A i, j \in InSection(updates') :
              i # j => hash(updates'[i].conv.user) # hash(updates'[j].conv.user)
       /\ (RequestStep /\ last'.decision # "Admitted")
          => \A i \in InSection(updates) :
                hash(updates[i].conv.user) # Identity(last')
       /\ Spaced(df')]_vars

\* C13, witness: a second request of an identity has arrived, and the clock has
\* moved on, while the first one, past the checks and the typing action, has
\* not yet appended its row
C13_Witness ==
    /\ Len(updates) = 2
    /\ updates[1].pos = "record"
    /\ updates[2].pos = "queued"
    /\ updates[1].conv = updates[2].conv
    /\ now > updates[1].t

\* The calls of op in the update
CallsOf(l, op) == {i \in DOMAIN l.calls : l.calls[i].op = op}
\* The provider calls of the update that failed with a request-validation or a
\* rate-limit error
Refused(l) ==
    {i \in DOMAIN l.calls :
        /\ l.calls[i].op \in {"Moderation.create", "Image.create"}
        /\ l.calls[i].res \in {"InvalidRequestError", "RateLimitError"}}

PersistFailed(l) ==
    \E i \in CallsOf(l, "to_csv") : l.calls[i].res = "raised"
\* A provider call of the update failed with an error that is neither a
\* request-validation nor a rate-limit error
ProviderFailed(l) ==
    \E i \in DOMAIN l.calls :
        /\ l.calls[i].op \in {"Moderation.create", "Image.create"}
        /\ l.calls[i].res = "APIError"
\* The last call of the update is the diagnostic that reached the developer chat
Diagnosed(l) ==
    /\ l.calls # << >>
    /\ l.calls[Len(l.calls)].op = "send_diagnostic_dev"
    /\ l.calls[Len(l.calls)].res = "ok"
    /\ Cardinality(CallsOf(l, "send_diagnostic_dev")) = 1

\* C15: when the write of the file fails, or a provider call fails with an
\* error other than a request-validation or rate-limit error, the exception
\* reaches error_handler: the developer chat gets one diagnostic, which is the
\* last thing the update does; the conversation states are as before the
\* request; a failed write is followed by no provider call; and the
\* dispatcher then goes back to polling.
C15_FatalErrorsPropagate ==
    [][/\ (RequestStep /\ (PersistFailed(last') \/ ProviderFailed(last')))
          => /\ last'.outcome = "Fatal"
             /\ Diagnosed(last')
             /\ last'.calls[Len(last'.calls) - 1].res \in Raises
             /\ conv' = conv
             /\ PersistFailed(last') => ~ProviderCalled(last')
       /\ (IsRequest(last) /\ last.outcome = "Fatal")
          => (last' = Idle /\ UNCHANGED <<now, df, csv, conv, updates>>)]_vars

\* C15, witness: every admitted request of user 1 ended in an exception, which
\* left its row in df and its conversation without a state, and a request of
\* user 2 was served after it
C15_Witness ==
    /\ \E c \in Convs : c.user = 1 /\ conv[c] = NONE
    /\ HasRecord(df, hash(1))
    /\ IsRequest(last)
    /\ last.conv.user = 2
    /\ last.outcome = "Delivered"

\* The calls of the update that send to the developer chat
OperatorOps == {"send_photo_dev", "send_policy_dev", "send_error_dev",
                "send_diagnostic_dev"}
\* The one message with which each rejection answers the requester
RejectionMessage(decision) ==
    CASE decision = "TooSoon" -> "send_too_soon"
      [] decision = "QuotaExceeded" -> "send_quota"
      [] decision = "PromptRequired" -> "send_ask_prompt"

PassesInterval(d, c, t) ==
    \A a \in Decisions(d, c, << <<"a">> >>, t) : a[1] # "TooSoon"

\* C17: the count of the day that the quota rule uses is the number of the
\* identity's records with a timestamp at or after 00:00:00 of the current
\* day, so a record of an earlier day is not counted, and the first request
\* of an identity on a day is not answered QuotaExceeded.
C17_DailyCountIsRecordsOfToday ==
    \A c \in Convs :
        /\ PassesInterval(df, c, now)
           => number_of_requests_per_day(df, hash(c.user), now)
                 = {Cardinality(RecordsOn(df, hash(c.user), DayOf(now)))}
        /\ RecordsOn(df, hash(c.user), DayOf(now)) = {}
           => \A a \in Decisions(df, c, << <<"a">> >>, now) : a[1] # "QuotaExceeded"

\* C18: the identity written to the hashed_user column, and passed to
\* Image.create as the user tag, is never equal to the raw Telegram user id.
C18_IdentityIsNotRawId ==
    [][(RequestStep /\ last'.decision = "Admitted")
       => /\ df'[Len(df')].hashed_user # last'.conv.user
          /\ \A i \in CallsOf(last', "Image.create") :
                last'.calls[i].user # last'.conv.user]_vars

\* The call i of the update reached the developer chat with the text
Reached(l, i, op, text) ==
    /\ l.calls[i].op = op
    /\ l.calls[i].res = "ok"
    /\ l.calls[i].text = text

\* C19: every request that appended a record sends at least one message to
\* the developer chat before its update is done: the photo with the
\* group/single-user tag and the prompt as caption (Delivered), the notice
\* with the prompt (Blocked), the prompt with the provider's error text
\* (ProviderError), or the diagnostic of error_handler (an exception, also
\* one raised by a send to the requester or by the copy to the developer
\* chat).
C19_OperatorNotified ==
    [][(RequestStep /\ Len(df') = Len(df) + 1)
       => LET l == last'
              prompt == df'[Len(df')].prompt
              tag == is_group_text(df'[Len(df')].group)
          IN  /\ l.outcome \in {"Delivered", "Blocked", "ProviderError", "Fatal"}
              /\ l.outcome = "Delivered"
                 => \E i \in DOMAIN l.calls :
                       Reached(l, i, "send_photo_dev", <<tag>> \o prompt)
              /\ l.outcome = "Blocked"
                 => \E i \in DOMAIN l.calls : Reached(l, i, "send_policy_dev", prompt)
              /\ l.outcome = "ProviderError"
                 => \E i \in DOMAIN l.calls, e \in Caught :
                       Reached(l, i, "send_error_dev", prompt \o <<"\n", e>>)
              /\ l.outcome = "Fatal"
                 => \E i \in DOMAIN l.calls :
                       Reached(l, i, "send_diagnostic_dev", << >>)]_vars

\* C19, witness: the photo could not be sent to the requester of a recorded
\* request, and the diagnostic reached the developer chat
C19_Witness ==
    /\ IsRequest(last)
    /\ \E i \in CallsOf(last, "send_photo_user") : last.calls[i].res = "raised"
    /\ Diagnosed(last)
    /\ \E i \in Records(df, Identity(last)) : df[i].timestamp = now

\* C20: admission is isolated per identity: a request of an identity is
\* answered as it would be in the run that differs only in that the other
\* identities made no request, where df holds the identity's rows only.
C20_AdmissionIsolatedPerIdentity ==
    \A c \in Convs, args \in ArgsSet :
        Decisions(df, c, args, now)
            = Decisions(UserRows(df, hash(c.user)), c, args, now)

====
